---- MODULE Spec2Model ----
(***************************************************************************)
(* Lifecycle of nanomsg::Socket (src/lib.rs): Socket::new, Socket::bind    *)
(* and Drop for Socket, run by client code that owns the Socket values,    *)
(* against the native library reached through libnanomsg (nn_socket,       *)
(* nn_bind, nn_shutdown).  Every native call is recorded in `calls`, and   *)
(* the value the last wrapper call returned to its caller in `last`.       *)
(***************************************************************************)
EXTENDS Integers, Sequences, FiniteSets, TLC

\* ------------------------------------------------------------- bounds
\* wrapper calls (Socket::new, bind) made in one run
MaxCalls == 3
\* sockets made in one run: at most every other call is a creation, so that
\* calls are left to bind the sockets made
MaxSockets == (MaxCalls + 1) \div 2

Ids == 1..MaxSockets
\* the native descriptor table holds as many descriptors as sockets are made
Fds == 0..(MaxSockets - 1)

\* ------------------------------------------------------------- data
\* enum Protocol
Protocol == {"Req", "Rep", "Push", "Pull"}

\* libnanomsg's identifiers, kept symbolic
NN_REQ == "NN_REQ"
NN_REP == "NN_REP"
NN_PUSH == "NN_PUSH"
NN_PULL == "NN_PULL"
AF_SP == "AF_SP"

\* Option<T>
None == <<>>
Some(x) == <<x>>

\* NanoResult<T>
Ok(v) == [ok |-> TRUE, val |-> v]
Err(e) == [ok |-> FALSE, err |-> e]
Unit == <<>>

\* result::ErrorKind variants used by lib.rs
SocketInitializationError == "SocketInitializationError"
SocketBindError == "SocketBindError"

\* NanoError::new(message, kind): pairs the message with the kind
NanoErrorNew(description, kind) == [description |-> description, kind |-> kind]

\* Strings are sequences of text pieces; "{}" is the format placeholder.
InitMessage == <<"Failed to create a new nanomsg socket. Error: ", "{}">>
BindMessage == <<"Failed to find the socket to the address: ", "{}">>

\* format!(fmt, arg): every placeholder replaced by the argument's text
RECURSIVE format(_, _)
format(fmt, arg) ==
    IF fmt = <<>> THEN <<>>
    ELSE IF Head(fmt) = "{}" THEN arg \o format(Tail(fmt), arg)
    ELSE <<Head(fmt)>> \o format(Tail(fmt), arg)

\* The addresses clients pass to bind (well-formed and malformed alike).
Addresses == { <<"ipc://", "/tmp/pipeline.ipc">>, <<"bogus">> }

\* addr.as_ptr() as *const i8: a &str carries no terminating NUL, so the
\* native side reads the address followed by whatever bytes precede the
\* next NUL in memory.
Overread == { <<>>, <<"?">> }
as_ptr(addr, tail) == addr \o tail

\* ------------------------------------------------------------- state
VARIABLES
    sock,     \* sock[s]: the Socket value of socket s, None while none exists
    life,     \* life[s]: "Uninitialized", "Created", "Dropping", "Released"
    nnOpen,   \* the handles open inside the native library
    calls,    \* every native call made so far, in order
    last,     \* the last wrapper call and what it returned to its caller
    napi      \* number of wrapper calls (new, bind) made so far

vars == <<sock, life, nnOpen, calls, last, napi>>

\* the number of Socket values constructed so far
created == Cardinality({s \in Ids : life[s] # "Uninitialized"})

NoCall == [op |-> "none", sid |-> 0, protocol |-> "", addr |-> <<>>,
           result |-> Ok(Unit),
           first |-> 0, n |-> 0]

Init ==
    /\ sock = [s \in Ids |-> None]
    /\ life = [s \in Ids |-> "Uninitialized"]
    /\ nnOpen = {}
    /\ calls = <<>>
    /\ last = NoCall
    /\ napi = 0

\* ------------------------------------------------------------- native
\* nn_socket: -1 on failure, else the lowest descriptor not currently open
nn_socket_returns ==
    {-1} \cup {h \in Fds \ nnOpen : \A g \in Fds \ nnOpen : h <= g}
\* nn_bind: -1 on failure, else the id of the endpoint added to socket h
\* (ids count up from 1 per socket)
endpoints(h) ==
    Cardinality({i \in 1..Len(calls) :
        /\ calls[i].fn = "nn_bind" /\ calls[i].a1 = h /\ calls[i].ret # -1
        /\ \A j \in (i+1)..Len(calls) :
              ~(calls[j].fn = "nn_socket" /\ calls[j].ret = h)})
nn_bind_returns(h) == {-1, endpoints(h) + 1}
\* nn_shutdown: 0 on success, -1 on failure
nn_shutdown_returns == {0, -1}

\* ------------------------------------------------------------- Socket::new
\* mutant: the last two arms name the same identifier
proto_swapped(protocol) ==
    CASE protocol = "Req" -> NN_REQ
      [] protocol = "Rep" -> NN_REP
      [] protocol = "Push" -> NN_PUSH
      [] protocol = "Pull" -> NN_PUSH

\* match protocol { Req => NN_REQ, ... }
proto(protocol) ==
    CASE protocol = "Req" -> NN_REQ
      [] protocol = "Rep" -> NN_REP
      [] protocol = "Push" -> NN_PUSH
      [] protocol = "Pull" -> NN_PULL

\* mutant: a failed nn_socket is tried once more
new_calls_retry(sid, protocol, ret) ==
    << [fn |-> "nn_socket", sid |-> 0, a1 |-> AF_SP, a2 |-> proto(protocol),
        ret |-> -1],
       [fn |-> "nn_socket", sid |-> sid, a1 |-> AF_SP, a2 |-> proto(protocol),
        ret |-> ret] >>

\* the native calls one Socket::new makes; ret is what nn_socket returns
new_calls(sid, protocol, ret) ==
    << [fn |-> "nn_socket", sid |-> sid, a1 |-> AF_SP, a2 |-> proto(protocol),
        ret |-> ret] >>

\* mutant: the sentinel is not checked
new_result_unchecked(socket) == Ok([addr |-> None, socket |-> socket])

\* mutant: the failure carries the other kind
new_result_wrong_kind(socket) ==
    IF socket = -1
    THEN Err(NanoErrorNew(InitMessage, SocketBindError))
    ELSE Ok([addr |-> None, socket |-> socket])

\* what Socket::new returns once nn_socket has returned `socket`
new_result(socket) ==
    IF socket = -1
    THEN Err(NanoErrorNew(InitMessage, SocketInitializationError))
    ELSE Ok([addr |-> None, socket |-> socket])

new(protocol) ==
    /\ napi < MaxCalls
    /\ created < MaxSockets
    /\ \E ret \in nn_socket_returns :
         LET s == created + 1
             result == new_result(ret)
             sid == IF result.ok THEN s ELSE 0
             made == new_calls(sid, protocol, ret)
         IN /\ calls' = calls \o made
            /\ nnOpen' = IF ret = -1 THEN nnOpen ELSE nnOpen \cup {ret}
            /\ last' = [op |-> "new", sid |-> sid, protocol |-> protocol,
                        addr |-> <<>>,
                        result |-> result, first |-> Len(calls) + 1,
                        n |-> Len(made)]
            /\ IF result.ok
               THEN /\ sock' = [sock EXCEPT ![s] = Some(result.val)]
                    /\ life' = [life EXCEPT ![s] = "Created"]
               ELSE UNCHANGED <<sock, life>>
            /\ napi' = napi + 1

\* ------------------------------------------------------------- Socket::bind
\* mutant: nn_bind is called on descriptor 0, not on self.socket
bind_calls_wrong_handle(sid, self, addr, tail, ret) ==
    << [fn |-> "nn_bind", sid |-> sid, a1 |-> 0,
        a2 |-> as_ptr(addr, tail), ret |-> ret] >>

\* the native calls one bind makes
bind_calls(sid, self, addr, tail, ret) ==
    << [fn |-> "nn_bind", sid |-> sid, a1 |-> self.socket,
        a2 |-> as_ptr(addr, tail), ret |-> ret] >>

\* mutant: the message is passed on unformatted, as Socket::new does
bind_result_unformatted(addr, ret) ==
    IF ret = -1
    THEN Err(NanoErrorNew(BindMessage, SocketBindError))
    ELSE Ok(Unit)

\* mutant: every non-zero return is taken for a failure
bind_result_nonzero(addr, ret) ==
    IF ret # 0
    THEN Err(NanoErrorNew(format(BindMessage, addr), SocketBindError))
    ELSE Ok(Unit)

\* what bind returns once nn_bind has returned `ret`
bind_result(addr, ret) ==
    IF ret = -1
    THEN Err(NanoErrorNew(format(BindMessage, addr), SocketBindError))
    ELSE Ok(Unit)

\* mutant: bind remembers the address
bind_self_stores(self, addr) == [self EXCEPT !.addr = Some(addr)]

\* *self after bind: bind assigns no field
bind_self(self, addr) == self

bind(s, addr) ==
    /\ napi < MaxCalls
    /\ life[s] = "Created"
    /\ \E ret \in nn_bind_returns(sock[s][1].socket), tail \in Overread :
         LET self == sock[s][1]
             made == bind_calls(s, self, addr, tail, ret)
         IN /\ calls' = calls \o made
            /\ last' = [op |-> "bind", sid |-> s, protocol |-> "",
                        addr |-> addr,
                        result |-> bind_result(addr, ret),
                        first |-> Len(calls) + 1, n |-> Len(made)]
            /\ sock' = [sock EXCEPT ![s] = Some(bind_self(self, addr))]
            /\ napi' = napi + 1
            /\ UNCHANGED <<life, nnOpen>>

\* ------------------------------------------------------------- Drop
\* The owner's scope ends: the value can no longer be named and its
\* destructor is due.
ScopeEnd(s) ==
    /\ life[s] = "Created"
    /\ life' = [life EXCEPT ![s] = "Dropping"]
    /\ UNCHANGED <<sock, nnOpen, calls, last, napi>>

\* mutant: the destructor shuts the handle down twice
drop_calls_twice(sid, self, ret) ==
    << [fn |-> "nn_shutdown", sid |-> sid, a1 |-> self.socket, a2 |-> 0,
        ret |-> ret],
       [fn |-> "nn_shutdown", sid |-> sid, a1 |-> self.socket, a2 |-> 0,
        ret |-> ret] >>

\* the native calls one drop makes
drop_calls(sid, self, ret) ==
    << [fn |-> "nn_shutdown", sid |-> sid, a1 |-> self.socket, a2 |-> 0,
        ret |-> ret] >>

\* mutant: a failed nn_shutdown leaves the destructor unfinished
drop_life_retry(ret) == IF ret = -1 THEN "Dropping" ELSE "Released"

\* the lifecycle state drop leaves the socket in: the return value of
\* nn_shutdown is discarded
drop_life(ret) == "Released"

drop(s) ==
    /\ life[s] = "Dropping"
    /\ \E ret \in nn_shutdown_returns :
         LET self == sock[s][1]
         IN /\ calls' = calls \o drop_calls(s, self, ret)
            /\ nnOpen' = IF ret = 0 THEN nnOpen \ {self.socket} ELSE nnOpen
            /\ life' = [life EXCEPT ![s] = drop_life(ret)]
            /\ sock' = [sock EXCEPT
                          ![s] = IF drop_life(ret) = "Released" THEN None
                                 ELSE @]
            /\ UNCHANGED <<last, napi>>

\* ------------------------------------------------------------- system
Next ==
    \/ \E p \in Protocol : new(p)
    \/ \E s \in Ids, a \in Addresses : bind(s, a)
    \/ \E s \in Ids : ScopeEnd(s)
    \/ \E s \in Ids : drop(s)

Spec == Init /\ [][Next]_vars

\* A destructor that is due runs: drop glue is called synchronously at
\* scope end and drop contains no loop.
FairSpec == Spec /\ \A s \in Ids : WF_vars(drop(s))

\* ------------------------------------------------------------- history
CallIdx == 1..Len(calls)
IsCall(i, f) == calls[i].fn = f
\* the successful nn_socket call that made socket s
CreatedAt(s) == CHOOSE i \in CallIdx : IsCall(i, "nn_socket") /\ calls[i].sid = s
HandleOf(s) == calls[CreatedAt(s)].ret
Exists(s) == life[s] \in {"Created", "Dropping"}
\* the native call the last wrapper call made first
LastRet == calls[last.first].ret
\* a step in which bind was called on socket s
BindStep(s) == napi' = napi + 1 /\ last'.op = "bind" /\ last'.sid = s
\* a step in which Socket::new was called and nn_socket failed
FailedNewStep ==
    /\ napi' = napi + 1 /\ last'.op = "new"
    /\ calls'[last'.first].ret = -1
\* a step in which the destructor of socket s called nn_shutdown
DropStep(s) ==
    /\ Len(calls') > Len(calls)
    /\ calls'[Len(calls')].fn = "nn_shutdown" /\ calls'[Len(calls')].sid = s
\* msg contains the text part
Contains(msg, part) ==
    \E i \in 1..(Len(msg) - Len(part) + 1) :
        SubSeq(msg, i, i + Len(part) - 1) = part

\* ------------------------------------------------------------- claims

\* C1: nn_shutdown is invoked at most once for every handle a successful
\* Socket::new returned: no socket's destructor shuts its handle down twice,
\* and two shutdowns of the same descriptor number are always separated by
\* an nn_socket call that handed the descriptor out again.
C1_ShutdownAtMostOnce ==
    /\ \A s \in Ids :
         Cardinality({i \in CallIdx : IsCall(i, "nn_shutdown")
                                      /\ calls[i].sid = s}) <= 1
    /\ \A i, j \in CallIdx :
         (/\ i < j /\ IsCall(i, "nn_shutdown") /\ IsCall(j, "nn_shutdown")
          /\ calls[i].a1 = calls[j].a1)
         => \E k \in (i+1)..(j-1) :
              IsCall(k, "nn_socket") /\ calls[k].ret = calls[i].a1

\* a descriptor was shut down by one socket, handed out again and shut down
\* by the next socket
C1_Witness ==
    \E i, j \in CallIdx :
        /\ i < j /\ IsCall(i, "nn_shutdown") /\ IsCall(j, "nn_shutdown")
        /\ calls[i].a1 = calls[j].a1 /\ calls[i].sid # calls[j].sid

\* C2: Released is terminal.  The native calls made for one socket are its
\* nn_socket, then its nn_bind calls, then its single nn_shutdown, which is
\* the last; after a handle's shutdown no native call is made with that
\* handle until nn_socket hands it out again; a Released socket stays
\* Released.
C2_LogOrdered ==
    /\ \A s \in Ids :
         /\ life[s] = "Uninitialized" =>
              \A i \in CallIdx : calls[i].sid # s
         /\ life[s] = "Released" <=>
              \E i \in CallIdx : IsCall(i, "nn_shutdown") /\ calls[i].sid = s
    /\ \A i \in CallIdx : calls[i].sid \in Ids =>
         /\ IsCall(i, "nn_socket") <=> i = CreatedAt(calls[i].sid)
         /\ i >= CreatedAt(calls[i].sid)
         /\ IsCall(i, "nn_shutdown") =>
              \A j \in (i+1)..Len(calls) : calls[j].sid # calls[i].sid
    /\ \A i, j \in CallIdx :
         (/\ i < j /\ IsCall(i, "nn_shutdown") /\ ~IsCall(j, "nn_socket")
          /\ calls[j].a1 = calls[i].a1)
         => \E k \in (i+1)..(j-1) :
              IsCall(k, "nn_socket") /\ calls[k].ret = calls[i].a1
C2_ReleasedTerminal ==
    /\ []C2_LogOrdered
    /\ [][\A s \in Ids : life[s] = "Released" =>
            life'[s] = "Released" /\ sock'[s] = None]_vars

\* a socket was released, and the program went on to bind another socket
\* that was given the same descriptor number
C2_Witness ==
    /\ life[1] = "Released" /\ Exists(2)
    /\ HandleOf(1) = HandleOf(2)
    /\ IsCall(Len(calls), "nn_bind") /\ calls[Len(calls)].sid = 2

\* C3: every Socket value that exists holds a non-negative handle, and
\* Socket::new never returns Ok with a negative one.
C3_HandleNonNegative ==
    /\ \A s \in Ids :
         /\ Exists(s) <=> sock[s] # None
         /\ sock[s] # None => sock[s][1].socket >= 0
    /\ (last.op = "new" /\ last.result.ok) => last.result.val.socket >= 0

\* a socket exists after nn_socket has both failed and succeeded
C3_Witness ==
    /\ \E s \in Ids : sock[s] # None /\ sock[s][1].socket >= 0
    /\ \E i \in CallIdx : IsCall(i, "nn_socket") /\ calls[i].ret = -1

\* C4: when nn_socket returns -1, Socket::new returns an error of kind
\* SocketInitializationError, no Socket value comes into existence, the
\* open handles are unchanged, and no nn_shutdown is ever made for it.
C4_FailedNew ==
    /\ (last.op = "new" /\ LastRet = -1) =>
         /\ ~last.result.ok
         /\ last.result.err.kind = "SocketInitializationError"
         /\ last.sid = 0
    /\ created = Cardinality({i \in CallIdx : IsCall(i, "nn_socket")
                                              /\ calls[i].ret # -1})
    /\ \A i \in CallIdx : IsCall(i, "nn_shutdown") =>
         /\ calls[i].a1 # -1
         /\ \E k \in 1..(i-1) :
              /\ IsCall(k, "nn_socket") /\ calls[k].ret = calls[i].a1
              /\ calls[k].sid = calls[i].sid
C4_CreateFailure ==
    /\ []C4_FailedNew
    /\ [][FailedNewStep => UNCHANGED <<sock, life, nnOpen>>]_vars

\* Socket::new has just failed while another socket is alive
C4_Witness ==
    /\ last.op = "new" /\ LastRet = -1 /\ ~last.result.ok
    /\ \E s \in Ids : Exists(s)

\* C5: when nn_bind returns -1, bind returns an error of kind
\* SocketBindError whose message contains the address passed to that call
\* and no other address.
C5_BindFailure ==
    (last.op = "bind" /\ LastRet = -1) =>
        /\ ~last.result.ok
        /\ last.result.err.kind = "SocketBindError"
        /\ Contains(last.result.err.description, last.addr)
        /\ \A a \in Addresses \ {last.addr} :
             ~Contains(last.result.err.description, a)

\* a bind failed on a socket on which a bind of another address had
\* succeeded before
C5_Witness ==
    /\ last.op = "bind" /\ LastRet = -1
    /\ \E i \in 1..(last.first - 1) :
         /\ IsCall(i, "nn_bind") /\ calls[i].sid = last.sid
         /\ calls[i].ret # -1
         /\ ~Contains(calls[i].a2, last.addr)

\* C6: once the owning scope of a socket has ended it is eventually
\* released: its destructor calls nn_shutdown on the handle create returned
\* with flags 0, leaves the socket Released whatever nn_shutdown returns,
\* and returns nothing to any caller.
C6_ShutdownArgs ==
    \A i \in CallIdx : IsCall(i, "nn_shutdown") =>
        /\ calls[i].a2 = 0
        /\ calls[i].sid \in Ids
        /\ calls[i].a1 = HandleOf(calls[i].sid)
C6_EventuallyReleased ==
    /\ []C6_ShutdownArgs
    /\ [][\A s \in Ids : DropStep(s) =>
            /\ life[s] = "Dropping" /\ life'[s] = "Released"
            /\ last' = last]_vars
    /\ \A s \in Ids : (life[s] = "Dropping") ~> (life[s] = "Released")

\* a socket whose bind failed was released although nn_shutdown failed
C6_Witness ==
    \E s \in Ids :
        /\ life[s] = "Released"
        /\ \E i \in CallIdx :
             IsCall(i, "nn_shutdown") /\ calls[i].sid = s /\ calls[i].ret = -1
        /\ \E i \in CallIdx :
             IsCall(i, "nn_bind") /\ calls[i].sid = s /\ calls[i].ret = -1

C8_BindOkIffNative ==
    last.op = "bind" =>
        /\ last.result.ok <=> LastRet # -1
        /\ last.result.ok => last.result.val = <<>>

\* a second bind, of another address, has just succeeded on a socket whose
\* first bind failed
C8_Witness ==
    /\ last.op = "bind" /\ last.result.ok
    /\ \E i \in 1..(last.first - 1) :
         /\ IsCall(i, "nn_bind") /\ calls[i].sid = last.sid
         /\ calls[i].ret = -1
         /\ ~Contains(calls[i].a2, last.addr)

\* C9: no retry and no swallowed failure: every Socket::new makes exactly
\* one nn_socket call and every bind exactly one nn_bind call, and the call
\* returns an error exactly when that native call returned -1.
C9_OneNativeCall ==
    /\ last.op # "none" =>
         /\ last.n = 1
         /\ last.op = "new" => IsCall(last.first, "nn_socket")
         /\ last.op = "bind" => IsCall(last.first, "nn_bind")
         /\ ~last.result.ok <=> LastRet = -1
    /\ napi = Cardinality({i \in CallIdx : ~IsCall(i, "nn_shutdown")})

\* a bind has just returned an error after Socket::new had returned one
C9_Witness ==
    /\ last.op = "bind" /\ ~last.result.ok /\ LastRet = -1
    /\ \E i \in CallIdx : IsCall(i, "nn_socket") /\ calls[i].ret = -1

\* C10: bind leaves the socket unchanged whether it succeeds or fails: the
\* handle stays the one create returned, addr stays None, the socket stays
\* Created, and it is released with the handle create returned.
C10_SocketState ==
    /\ \A s \in Ids : sock[s] # None =>
         /\ sock[s][1].addr = <<>>
         /\ sock[s][1].socket = HandleOf(s)
    /\ \A i \in CallIdx :
         (calls[i].sid \in Ids /\ ~IsCall(i, "nn_socket")) =>
             calls[i].a1 = HandleOf(calls[i].sid)
C10_BindFrame ==
    /\ []C10_SocketState
    /\ [][\A s \in Ids : BindStep(s) =>
            /\ sock'[s] = sock[s]
            /\ life[s] = "Created" /\ life'[s] = "Created"]_vars

\* a socket was released after a failed bind followed by a successful one
C10_Witness ==
    \E s \in Ids :
        /\ life[s] = "Released"
        /\ \E i, j \in CallIdx :
             /\ i < j
             /\ IsCall(i, "nn_bind") /\ calls[i].sid = s /\ calls[i].ret = -1
             /\ IsCall(j, "nn_bind") /\ calls[j].sid = s /\ calls[j].ret # -1

====
